---------------------------- MODULE Spec2Model ----------------------------
(***************************************************************************)
(* Model of the two hypothesis-test engines of statistics-problems:        *)
(*   - normal_distribution_hypothesis.rs : chi-squared goodness of fit     *)
(*     (Complete and Incomplete problem situations),                       *)
(*   - same_variance_hypothesis.rs       : F-test of equal variances.      *)
(*                                                                         *)
(* f64 values are modelled as IEEE-754 values with exact (rational)        *)
(* finite arithmetic: NaN, +/-infinity, signed zero and finite rationals   *)
(* in sign-magnitude form.  Rounding of finite results is not modelled.    *)
(***************************************************************************)
EXTENDS Integers, Sequences, FiniteSets, TLC

(***************************************************************************)
(* Bounds of the model.                                                    *)
(***************************************************************************)
\* Longest frequency sample (and longest list of bin ranges) handed to a
\* problem situation's constructor.
MaxLen == 4
\* Longest sample handed to SameVarianceHypothesis::new.
MaxSampleLen == 3

(***************************************************************************)
(* f64                                                                     *)
(***************************************************************************)
RECURSIVE Gcd(_, _)
Gcd(a, b) == IF b = 0 THEN a ELSE Gcd(b, a % b)

\* A finite f64 with sign s (1 or -1) and magnitude n/d, in lowest terms.
Fin(s, n, d) ==
    IF n = 0 THEN [k |-> "fin", s |-> s, n |-> 0, d |-> 1]
    ELSE LET g == Gcd(n, d) IN [k |-> "fin", s |-> s, n |-> n \div g, d |-> d \div g]

NaN == [k |-> "nan", s |-> 1, n |-> 0, d |-> 1]
Inf(s) == [k |-> "inf", s |-> s, n |-> 0, d |-> 1]

\* An integer as f64 (`len as f64`, `*i as f64`, a literal such as 1f64).
F(i) == IF i < 0 THEN Fin(-1, -i, 1) ELSE Fin(1, i, 1)
\* A decimal literal such as 0.05 = Q(5, 100).
Q(n, d) == Fin(1, n, d)
NegQ(n, d) == Fin(-1, n, d)

IsNaN(x) == x.k = "nan"
IsZero(x) == x.k = "fin" /\ x.n = 0

FNeg(x) == IF IsNaN(x) THEN x ELSE [x EXCEPT !.s = -x.s]
FAbs(x) == IF IsNaN(x) THEN x ELSE [x EXCEPT !.s = 1]

\* Products and sums reduce before they multiply, so that intermediate
\* integers stay small.
FMul(x, y) ==
    IF IsNaN(x) \/ IsNaN(y) THEN NaN
    ELSE IF x.k = "inf" \/ y.k = "inf"
         THEN IF IsZero(x) \/ IsZero(y) THEN NaN ELSE Inf(x.s * y.s)
    ELSE IF IsZero(x) \/ IsZero(y) THEN Fin(x.s * y.s, 0, 1)
    ELSE LET g1 == Gcd(x.n, y.d)
             g2 == Gcd(y.n, x.d)
         IN  Fin(x.s * y.s, (x.n \div g1) * (y.n \div g2), (x.d \div g2) * (y.d \div g1))

FDiv(x, y) ==
    IF IsNaN(x) \/ IsNaN(y) THEN NaN
    ELSE IF x.k = "inf" THEN (IF y.k = "inf" THEN NaN ELSE Inf(x.s * y.s))
    ELSE IF y.k = "inf" THEN Fin(x.s * y.s, 0, 1)
    ELSE IF IsZero(y) THEN (IF IsZero(x) THEN NaN ELSE Inf(x.s * y.s))
    ELSE FMul(x, [y EXCEPT !.n = y.d, !.d = y.n])

FAdd(x, y) ==
    IF IsNaN(x) \/ IsNaN(y) THEN NaN
    ELSE IF x.k = "inf" THEN (IF y.k = "inf" /\ y.s # x.s THEN NaN ELSE x)
    ELSE IF y.k = "inf" THEN y
    ELSE LET g == Gcd(x.d, y.d)
             a == x.s * x.n * (y.d \div g) + y.s * y.n * (x.d \div g)
             d == (x.d \div g) * y.d
         IN  IF a = 0 THEN Fin(IF x.s = -1 /\ y.s = -1 THEN -1 ELSE 1, 0, 1)
             ELSE IF a < 0 THEN Fin(-1, -a, d)
             ELSE Fin(1, a, d)

FSub(x, y) == FAdd(x, FNeg(y))

\* x < y on f64: false when either is NaN; -0.0 and 0.0 are equal.
FLt(x, y) ==
    /\ ~IsNaN(x)
    /\ ~IsNaN(y)
    /\ IF x.k = "inf" THEN x.s = -1 /\ ~(y.k = "inf" /\ y.s = -1)
       ELSE IF y.k = "inf" THEN y.s = 1
       ELSE LET g == Gcd(x.d, y.d)
            IN  x.s * x.n * (y.d \div g) < y.s * y.n * (x.d \div g)

FGt(x, y) == FLt(y, x)

\* x == y on f64: false when either is NaN; -0.0 == 0.0.
FEq(x, y) ==
    /\ ~IsNaN(x)
    /\ ~IsNaN(y)
    /\ ~FLt(x, y)
    /\ ~FLt(y, x)

\* f64::max / f64::min: a NaN operand is ignored.
FMax(x, y) == IF IsNaN(x) THEN y ELSE IF IsNaN(y) THEN x ELSE IF FLt(x, y) THEN y ELSE x
FMin(x, y) == IF IsNaN(x) THEN y ELSE IF IsNaN(y) THEN x ELSE IF FLt(y, x) THEN y ELSE x

\* f64::powi(2)
Powi2(x) == FMul(x, x)

\* Iterator::sum::<f64>() : a left fold of + from the neutral element `zero`.
RECURSIVE FSumFrom(_, _)
FSumFrom(acc, seq) ==
    IF seq = << >> THEN acc ELSE FSumFrom(FAdd(acc, Head(seq)), Tail(seq))


(***************************************************************************)
(* The toolchain.  The neutral element of <f64 as Sum> is 0.0 in older     *)
(* standard libraries and -0.0 in newer ones; the build fixes one of them. *)
(***************************************************************************)
VARIABLE sum_neutral

FSum(seq) == FSumFrom(sum_neutral, seq)

Min2(a, b) == IF a < b THEN a ELSE b
\* The indices iter().zip(..) visits: it stops at the shorter slice.
ZipIndices(xs, ys) == 1..Min2(Len(xs), Len(ys))

\* Result<T, E> and the outcome of a call that may panic.
Ok(v) == [ok |-> TRUE, value |-> v]
Err(e) == [ok |-> FALSE, err |-> e]
\* No value (yet): an object not constructed, a call not made.
NoValue == [none |-> TRUE]

(***************************************************************************)
(* statrs (external crate): the parts of its contract the engines use.     *)
(* Quantiles and the normal CDF are tabulated step functions, rounded to   *)
(* coarse values; they are positive / monotone as the real ones are.       *)
(***************************************************************************)
\* ChiSquared::new(freedom): Gamma::new(freedom / 2, 0.5) rejects a NaN or
\* non-positive shape.
ChiSquared_new(freedom) ==
    IF IsNaN(freedom) \/ ~FGt(freedom, F(0)) THEN Err("BadParams") ELSE Ok([freedom |-> freedom])

\* 0.95- and 0.99-quantiles of chi-squared, rounded to integers, by freedom.
ChiSquaredQuantile95 == <<4, 6, 8, 9, 11, 13>>
ChiSquaredQuantile99 == <<7, 9, 11, 13, 15, 17>>

\* ChiSquared::inverse_cdf(p), for integral freedom >= 1 and p in (0,1).
ChiSquared_inverse_cdf(dist, p) ==
    LET k == dist.freedom.n IN
    IF FLt(p, Q(99, 100))
    THEN F(IF k <= 6 THEN ChiSquaredQuantile95[k] ELSE k + 7)
    ELSE F(IF k <= 6 THEN ChiSquaredQuantile99[k] ELSE k + 11)

\* FisherSnedecor::new(freedom_1, freedom_2): both must be finite and positive.
FisherSnedecor_new(freedom_1, freedom_2) ==
    IF \/ freedom_1.k # "fin" \/ ~FGt(freedom_1, F(0))
       \/ freedom_2.k # "fin" \/ ~FGt(freedom_2, F(0))
    THEN Err("BadParams")
    ELSE Ok([freedom_1 |-> freedom_1, freedom_2 |-> freedom_2])

\* 0.95- and 0.99-quantiles of F, rounded to integers: [freedom_2][freedom_1],
\* both capped at 5.
FisherSnedecorQuantile95 ==
    << <<161, 200, 216, 225, 230>>,
       <<19, 19, 19, 19, 19>>,
       <<10, 10, 9, 9, 9>>,
       <<8, 7, 7, 6, 6>>,
       <<7, 6, 5, 5, 5>> >>
FisherSnedecorQuantile99 ==
    << <<4052, 5000, 5403, 5625, 5764>>,
       <<99, 99, 99, 99, 99>>,
       <<34, 31, 29, 29, 28>>,
       <<21, 18, 17, 16, 16>>,
       <<16, 13, 12, 11, 11>> >>

FisherSnedecor_inverse_cdf(dist, p) ==
    LET k1 == Min2(dist.freedom_1.n, 5)
        k2 == Min2(dist.freedom_2.n, 5)
    IN  IF FLt(p, Q(99, 100))
        THEN F(FisherSnedecorQuantile95[k2][k1])
        ELSE F(FisherSnedecorQuantile99[k2][k1])

\* Normal::new(mean, std_dev) with std_dev = variance.sqrt(), carried by its
\* square: the square root is NaN for a NaN or negative operand, zero for a
\* zero operand and positive otherwise.  Normal::new rejects a NaN mean and a
\* NaN or non-positive std_dev.
Normal_new_sqrt(mean, variance) ==
    IF IsNaN(mean) \/ IsNaN(variance) \/ ~FGt(variance, F(0))
    THEN Err("BadParams")
    ELSE Ok([mean |-> mean, variance |-> variance])

\* Phi(|z|) by z^2, rounded up to the next tabulated |z| in 0.5, 1, 1.5, 2, 3
\* and to fortieths.
NormalUpperStep(z2) ==
    IF ~FGt(z2, Q(1, 4)) THEN Q(7, 10)
    ELSE IF ~FGt(z2, F(1)) THEN Q(17, 20)
    ELSE IF ~FGt(z2, Q(9, 4)) THEN Q(19, 20)
    ELSE IF ~FGt(z2, F(4)) THEN Q(39, 40)
    ELSE F(1)

\* Normal::cdf(x)
Normal_cdf(dist, x) ==
    LET dev == FSub(x, dist.mean)
        z2 == FDiv(Powi2(dev), dist.variance)
    IN  IF IsZero(dev) THEN Q(1, 2)
        ELSE IF FGt(dev, F(0)) THEN NormalUpperStep(z2)
        ELSE FSub(F(1), NormalUpperStep(z2))

(***************************************************************************)
(* normal_distribution_hypothesis.rs                                       *)
(***************************************************************************)
\* Fault: CompleteNDHProblemSituation::new validating the significance
\* before the lengths.
CompleteNDHProblemSituation_new_significance_first(empirical_sample, theoretical_sample, significance) ==
    IF ~(FGt(significance, F(0)) /\ FLt(significance, F(1)))
    THEN Err("SignificanceInvalid")
    ELSE IF Len(empirical_sample) # Len(theoretical_sample)
    THEN Err("NonEqualSamplesLengths")
    ELSE Ok([kind |-> "Complete",
             empirical_sample |-> empirical_sample,
             theoretical_sample |-> theoretical_sample,
             random_value_ranges |-> << >>,
             significance |-> significance])

\* CompleteNDHProblemSituation::new
CompleteNDHProblemSituation_new(empirical_sample, theoretical_sample, significance) ==
    IF Len(empirical_sample) # Len(theoretical_sample)
    THEN Err("NonEqualSamplesLengths")
    ELSE IF ~(FGt(significance, F(0)) /\ FLt(significance, F(1)))
    THEN Err("SignificanceInvalid")
    ELSE Ok([kind |-> "Complete",
             empirical_sample |-> empirical_sample,
             theoretical_sample |-> theoretical_sample,
             random_value_ranges |-> << >>,
             significance |-> significance])

\* Fault: IncompleteNDHProblemSituation::new accepting the closed interval
\* [0,1] of significances.
IncompleteNDHProblemSituation_new_closed_interval(random_value_ranges, empirical_sample, significance) ==
    IF Len(random_value_ranges) # Len(empirical_sample)
    THEN Err("NonEqualSamplesLengths")
    ELSE IF ~(~FLt(significance, F(0)) /\ ~FGt(significance, F(1))) \/ IsNaN(significance)
    THEN Err("SignificanceInvalid")
    ELSE Ok([kind |-> "Incomplete",
             empirical_sample |-> empirical_sample,
             theoretical_sample |-> << >>,
             random_value_ranges |-> random_value_ranges,
             significance |-> significance])

\* IncompleteNDHProblemSituation::new
IncompleteNDHProblemSituation_new(random_value_ranges, empirical_sample, significance) ==
    IF Len(random_value_ranges) # Len(empirical_sample)
    THEN Err("NonEqualSamplesLengths")
    ELSE IF ~(FGt(significance, F(0)) /\ FLt(significance, F(1)))
    THEN Err("SignificanceInvalid")
    ELSE Ok([kind |-> "Incomplete",
             empirical_sample |-> empirical_sample,
             theoretical_sample |-> << >>,
             random_value_ranges |-> random_value_ranges,
             significance |-> significance])

\* The method-of-moments estimates of IncompleteNDHProblemSituation::
\* theoretical_sample: the frequency-weighted mean of the bin midpoints ...
Incomplete_mean(self) ==
    LET weighted(r, m) == FDiv(FMul(m, FAdd(r[2], r[1])), F(2))
    IN  FMul(FDiv(F(1), FSum(self.empirical_sample)),
             FSum([i \in ZipIndices(self.random_value_ranges, self.empirical_sample) |->
                      weighted(self.random_value_ranges[i], self.empirical_sample[i])]))

\* ... and the frequency-weighted mean squared deviation from it.
Incomplete_variance(self) ==
    LET mean == Incomplete_mean(self)
        deviation(r, m) == FMul(m, Powi2(FSub(FDiv(FAdd(r[2], r[1]), F(2)), mean)))
    IN  FMul(FDiv(F(1), FSum(self.empirical_sample)),
             FSum([i \in ZipIndices(self.random_value_ranges, self.empirical_sample) |->
                      deviation(self.random_value_ranges[i], self.empirical_sample[i])]))

\* IncompleteNDHProblemSituation::theoretical_sample.  Normal::new(..).unwrap()
\* panics on Err: the outcome is then [panic |-> TRUE].
Incomplete_theoretical_sample(self) ==
    LET normal_distribution == Normal_new_sqrt(Incomplete_mean(self), Incomplete_variance(self))
        expected(r) == FMul(FSum(self.empirical_sample),
                            FSub(Normal_cdf(normal_distribution.value, r[2]),
                                 Normal_cdf(normal_distribution.value, r[1])))
    IN  IF ~normal_distribution.ok
        THEN [panic |-> TRUE, value |-> << >>]
        ELSE [panic |-> FALSE,
              value |-> [i \in 1..Len(self.random_value_ranges) |->
                            expected(self.random_value_ranges[i])]]

\* NDHProblemSituation::theoretical_sample, dispatched on the variant.
theoretical_sample(self) ==
    IF self.kind = "Complete"
    THEN [panic |-> FALSE, value |-> self.theoretical_sample]
    ELSE Incomplete_theoretical_sample(self)

\* Fault: calculate_chi_squared_critical_value constructing the distribution
\* before it validates the significance.
calculate_chi_squared_critical_value_distribution_first(freedom_degrees, significance) ==
    LET chi_squared_dist == ChiSquared_new(freedom_degrees) IN
    IF ~chi_squared_dist.ok
    THEN Err("FreedomDegreesInvalid")
    ELSE IF ~(FGt(significance, F(0)) /\ FLt(significance, F(1)))
    THEN Err("SignificanceInvalid")
    ELSE Ok(ChiSquared_inverse_cdf(chi_squared_dist.value, FSub(F(1), significance)))

\* calculate_chi_squared_critical_value
calculate_chi_squared_critical_value(freedom_degrees, significance) ==
    IF ~(FGt(significance, F(0)) /\ FLt(significance, F(1)))
    THEN Err("SignificanceInvalid")
    ELSE LET chi_squared_dist == ChiSquared_new(freedom_degrees) IN
         IF ~chi_squared_dist.ok
         THEN Err("FreedomDegreesInvalid")
         ELSE Ok(ChiSquared_inverse_cdf(chi_squared_dist.value, FSub(F(1), significance)))

\* Fault: the observed statistic with the deviation's sign slipped.
chi_squared_observed_sign_slip(empirical, theoretical) ==
    LET term(e, t) == FDiv(Powi2(FAdd(e, t)), t)
    IN  FSum([i \in ZipIndices(empirical, theoretical) |-> term(empirical[i], theoretical[i])])

\* The observed statistic of NormalDistributionHypothesis::solve.
chi_squared_observed(empirical, theoretical) ==
    LET term(e, t) == FDiv(Powi2(FSub(e, t)), t)
    IN  FSum([i \in ZipIndices(empirical, theoretical) |-> term(empirical[i], theoretical[i])])

\* The outcome of a solve(): what it returned (or that it panicked) and the
\* values it computed on the way (the code prints them).
Outcome(status, result, observed, critical, theoretical) ==
    [status |-> status, result |-> result, observed |-> observed,
     critical |-> critical, theoretical |-> theoretical]

\* Fault: solve accepting a statistic equal to the critical value.
NormalDistributionHypothesis_solve_non_strict(situation) ==
    LET freedom_degrees == FSub(FSub(F(Len(situation.empirical_sample)), F(2)), F(1))
        chi_squared_critical_value ==
            calculate_chi_squared_critical_value(freedom_degrees, situation.significance)
        theoretical == theoretical_sample(situation)
        observed == chi_squared_observed(situation.empirical_sample, theoretical.value)
    IN  IF ~chi_squared_critical_value.ok
        THEN Outcome("returned", Err(chi_squared_critical_value.err), NoValue, NoValue, << >>)
        ELSE IF theoretical.panic
        THEN Outcome("panicked", NoValue, NoValue, chi_squared_critical_value.value, << >>)
        ELSE Outcome("returned",
                     Ok(~FGt(observed, chi_squared_critical_value.value) /\ ~IsNaN(observed)),
                     observed, chi_squared_critical_value.value, theoretical.value)

\* Fault: solve evaluating the theoretical sample before the critical value.
NormalDistributionHypothesis_solve_theoretical_first(situation) ==
    LET freedom_degrees == FSub(FSub(F(Len(situation.empirical_sample)), F(2)), F(1))
        chi_squared_critical_value ==
            calculate_chi_squared_critical_value(freedom_degrees, situation.significance)
        theoretical == theoretical_sample(situation)
        observed == chi_squared_observed(situation.empirical_sample, theoretical.value)
    IN  IF theoretical.panic
        THEN Outcome("panicked", NoValue, NoValue, NoValue, << >>)
        ELSE IF ~chi_squared_critical_value.ok
        THEN Outcome("returned", Err(chi_squared_critical_value.err), NoValue, NoValue, << >>)
        ELSE Outcome("returned",
                     Ok(FLt(observed, chi_squared_critical_value.value)),
                     observed, chi_squared_critical_value.value, theoretical.value)

\* NormalDistributionHypothesis::solve on the situation the instance owns.
NormalDistributionHypothesis_solve(situation) ==
    LET freedom_degrees == FSub(FSub(F(Len(situation.empirical_sample)), F(2)), F(1))
        chi_squared_critical_value ==
            calculate_chi_squared_critical_value(freedom_degrees, situation.significance)
        theoretical == theoretical_sample(situation)
        observed == chi_squared_observed(situation.empirical_sample, theoretical.value)
    IN  IF ~chi_squared_critical_value.ok
        THEN Outcome("returned", Err(chi_squared_critical_value.err), NoValue, NoValue, << >>)
        ELSE IF theoretical.panic
        THEN Outcome("panicked", NoValue, NoValue, chi_squared_critical_value.value, << >>)
        ELSE Outcome("returned",
                     Ok(FLt(observed, chi_squared_critical_value.value)),
                     observed, chi_squared_critical_value.value, theoretical.value)

\* NormalDistributionHypothesis::new: takes ownership of the situation.
NormalDistributionHypothesis_new(situation) == Ok([situation |-> situation])

\* Fault: solve taking the empirical sample out of the situation it owns.
NormalDistributionHypothesis_after_solve_takes_sample(self) ==
    [self EXCEPT !.situation.empirical_sample = << >>]

\* solve(&self): the instance after the call.
NormalDistributionHypothesis_after_solve(self) == self

(***************************************************************************)
(* same_variance_hypothesis.rs                                             *)
(***************************************************************************)
\* SameVarianceHypothesis::new: no validation.
SameVarianceHypothesis_new(x_sample, y_sample, significance) ==
    [x_sample |-> x_sample, y_sample |-> y_sample, significance |-> significance]

\* the closure sample_mean of solve
sample_mean(sample) == FMul(FDiv(F(1), F(Len(sample))), FSum(sample))

\* the closure unbiased_sample_variance of solve
unbiased_sample_variance(sample) ==
    LET mean == sample_mean(sample)
        squared_deviation(value) == Powi2(FAbs(FSub(value, mean)))
    IN  FMul(FDiv(F(1), FSub(F(Len(sample)), F(1))), FSum([i \in 1..Len(sample) |-> squared_deviation(sample[i])]))

\* calculate_fished_snedecor_critical_value
calculate_fished_snedecor_critical_value(freedom_degrees_1, freedom_degrees_2, significance) ==
    IF ~(FGt(significance, F(0)) /\ FLt(significance, F(1)))
    THEN Err("SignificanceInvalid")
    ELSE LET fisher_snedecor_dist == FisherSnedecor_new(freedom_degrees_1, freedom_degrees_2) IN
         IF ~fisher_snedecor_dist.ok
         THEN Err("FreedomDegreesInvalid")
         ELSE Ok(FisherSnedecor_inverse_cdf(fisher_snedecor_dist.value, FSub(F(1), significance)))

\* Fault: the degrees of freedom always in the order X, Y.
freedom_degrees_pair_unordered(self, x_usv, y_usv, max_usv) ==
    <<FSub(F(Len(self.x_sample)), F(1)), FSub(F(Len(self.y_sample)), F(1))>>

\* The degrees of freedom of solve, ordered as the ratio is.
freedom_degrees_pair(self, x_usv, y_usv, max_usv) ==
    IF FEq(max_usv, x_usv)
    THEN <<FSub(F(Len(self.x_sample)), F(1)), FSub(F(Len(self.y_sample)), F(1))>>
    ELSE <<FSub(F(Len(self.y_sample)), F(1)), FSub(F(Len(self.x_sample)), F(1))>>

\* SameVarianceHypothesis::solve: what it returned and the values it computed
\* on the way (the code prints the statistic and the critical value).
SameVarianceHypothesis_solve(self) ==
    LET x_usv == unbiased_sample_variance(self.x_sample)
        y_usv == unbiased_sample_variance(self.y_sample)
        max_usv == FMax(x_usv, y_usv)
        min_usv == FMin(x_usv, y_usv)
        freedom_degrees == freedom_degrees_pair(self, x_usv, y_usv, max_usv)
        fisher_snedecor_observed == FDiv(max_usv, min_usv)
        fisher_snedecor_critical_value ==
            calculate_fished_snedecor_critical_value(
                freedom_degrees[1], freedom_degrees[2], self.significance)
    IN  [status |-> "returned",
         result |-> IF ~fisher_snedecor_critical_value.ok
                    THEN Err(fisher_snedecor_critical_value.err)
                    ELSE Ok(FLt(fisher_snedecor_observed, fisher_snedecor_critical_value.value)),
         x_usv |-> x_usv,
         y_usv |-> y_usv,
         observed |-> fisher_snedecor_observed,
         critical |-> IF fisher_snedecor_critical_value.ok
                      THEN fisher_snedecor_critical_value.value ELSE NoValue,
         freedom_degrees_1 |-> freedom_degrees[1],
         freedom_degrees_2 |-> freedom_degrees[2]]

\* solve(&self): the instance after the call.
SameVarianceHypothesis_after_solve(self) == self

(***************************************************************************)
(* The inputs the model draws.                                             *)
(***************************************************************************)
\* Frequencies and sample values.
SampleValues == {F(0), F(1)}
\* Bin ranges (lower, upper).
RangeValues == {<<F(0), F(2)>>, <<F(2), F(4)>>}
\* Significance levels inside (0,1) ...
ValidSignificances == {Q(5, 100), Q(1, 100)}
\* ... and outside it.
InvalidSignificances == {NegQ(1, 10), F(0), F(1), Q(3, 2), NaN}
Significances == ValidSignificances \cup InvalidSignificances

SeqsUpTo(S, n) == UNION {[1..k -> S] : k \in 0..n}
Samples == SeqsUpTo(SampleValues, MaxLen)
XYSamples == SeqsUpTo(SampleValues, MaxSampleLen)
Ranges == SeqsUpTo(RangeValues, MaxLen)
\* Degrees of freedom a caller of the critical-value function may pass.
FreedomDegrees == {F(i) : i \in -3..(MaxLen - 3)}

(***************************************************************************)
(* The program: a caller constructs a problem situation and a hypothesis   *)
(* over it, or a same-variance hypothesis, and calls solve() on it.        *)
(***************************************************************************)
VARIABLES
    pc,         \* where the caller is
    args,       \* the arguments of the constructor (or function) called
    situation,  \* Result of the problem situation's constructor
    ndh,        \* the NormalDistributionHypothesis instance
    ndh_out,    \* outcome of the latest ndh.solve()
    ndh_prev,   \* outcome of the solve() before it
    svh,        \* the SameVarianceHypothesis instance
    svh_out,    \* outcome of the latest svh.solve()
    svh_prev,   \* outcome of the solve() before it
    critical    \* Result of a direct critical-value computation

vars == <<sum_neutral, pc, args, situation, ndh, ndh_out, ndh_prev,
          svh, svh_out, svh_prev, critical>>

Init ==
    /\ sum_neutral \in {Fin(1, 0, 1), Fin(-1, 0, 1)}
    /\ pc = "start"
    /\ args = NoValue
    /\ situation = NoValue
    /\ ndh = NoValue
    /\ ndh_out = NoValue
    /\ ndh_prev = NoValue
    /\ svh = NoValue
    /\ svh_out = NoValue
    /\ svh_prev = NoValue
    /\ critical = NoValue

Args(op, a, b, significance) == [op |-> op, a |-> a, b |-> b, significance |-> significance]

\* main.rs:13 -- CompleteNDHProblemSituation::new(&e, &t, significance)
CompleteNew ==
    /\ pc = "start"
    /\ \E e \in Samples, t \in Samples, s \in Significances :
          /\ args' = Args("CompleteNDHProblemSituation::new", e, t, s)
          /\ situation' = CompleteNDHProblemSituation_new(e, t, s)
    /\ pc' = IF situation'.ok THEN "situation" ELSE "failed"
    /\ UNCHANGED <<sum_neutral, ndh, ndh_out, ndh_prev, svh, svh_out, svh_prev, critical>>

\* main.rs:27 -- IncompleteNDHProblemSituation::new(&rv_ranges, &e, significance)
IncompleteNew ==
    /\ pc = "start"
    /\ \E r \in Ranges, e \in Samples, s \in Significances :
          /\ args' = Args("IncompleteNDHProblemSituation::new", r, e, s)
          /\ situation' = IncompleteNDHProblemSituation_new(r, e, s)
    /\ pc' = IF situation'.ok THEN "situation" ELSE "failed"
    /\ UNCHANGED <<sum_neutral, ndh, ndh_out, ndh_prev, svh, svh_out, svh_prev, critical>>

\* main.rs:14 -- NormalDistributionHypothesis::new(situation).unwrap()
NDHNew ==
    /\ pc = "situation"
    /\ ndh' = NormalDistributionHypothesis_new(situation.value).value
    /\ pc' = "ndh"
    /\ UNCHANGED <<sum_neutral, args, situation, ndh_out, ndh_prev, svh, svh_out, svh_prev, critical>>

\* main.rs:15 -- ndh.solve(); a panic ends the process.
NDHSolve ==
    /\ pc = "ndh"
    /\ ndh_out' = NormalDistributionHypothesis_solve(ndh.situation)
    /\ ndh_prev' = ndh_out
    /\ ndh' = NormalDistributionHypothesis_after_solve(ndh)
    /\ pc' = IF ndh_out'.status = "panicked" THEN "aborted" ELSE "ndh"
    /\ UNCHANGED <<sum_neutral, args, situation, svh, svh_out, svh_prev, critical>>

\* main.rs:34 -- SameVarianceHypothesis::new(&x, &y, significance)
SVHNew ==
    /\ pc = "start"
    /\ \E x \in XYSamples, y \in XYSamples, s \in Significances :
          /\ args' = Args("SameVarianceHypothesis::new", x, y, s)
          /\ svh' = SameVarianceHypothesis_new(x, y, s)
    /\ pc' = "svh"
    /\ UNCHANGED <<sum_neutral, situation, ndh, ndh_out, ndh_prev, svh_out, svh_prev, critical>>

\* main.rs:35 -- svh.solve()
SVHSolve ==
    /\ pc = "svh"
    /\ svh_out' = SameVarianceHypothesis_solve(svh)
    /\ svh_prev' = svh_out
    /\ svh' = SameVarianceHypothesis_after_solve(svh)
    /\ pc' = "svh"
    /\ UNCHANGED <<sum_neutral, args, situation, ndh, ndh_out, ndh_prev, critical>>

\* calculate_chi_squared_critical_value as solve() calls it for a situation
\* of any implementor of NDHProblemSituation, whose significance() is free.
ChiSquaredCritical ==
    /\ pc = "start"
    /\ \E fd \in FreedomDegrees, s \in Significances :
          /\ args' = Args("calculate_chi_squared_critical_value", fd, << >>, s)
          /\ critical' = calculate_chi_squared_critical_value(fd, s)
    /\ pc' = "called"
    /\ UNCHANGED <<sum_neutral, situation, ndh, ndh_out, ndh_prev, svh, svh_out, svh_prev>>

Next ==
    \/ CompleteNew
    \/ IncompleteNew
    \/ NDHNew
    \/ NDHSolve
    \/ SVHNew
    \/ SVHSolve
    \/ ChiSquaredCritical

Spec == Init /\ [][Next]_vars

(***************************************************************************)
(* Properties.                                                             *)
(***************************************************************************)
ConstructorCalled ==
    /\ args # NoValue
    /\ args.op \in {"CompleteNDHProblemSituation::new", "IncompleteNDHProblemSituation::new"}
ChiSquaredCriticalCalled ==
    /\ args # NoValue
    /\ args.op = "calculate_chi_squared_critical_value"
NDHSolved == ndh_out # NoValue
SVHSolved == svh_out # NoValue
Returned(out, result) == out.status = "returned" /\ out.result = result

\* Sum over all bins of (empirical[i] - theoretical[i])^2 / theoretical[i].
RECURSIVE ChiSquaredStatistic(_, _, _)
ChiSquaredStatistic(e, t, i) ==
    IF i = 0 THEN sum_neutral
    ELSE FAdd(ChiSquaredStatistic(e, t, i - 1),
              FDiv(FMul(FSub(e[i], t[i]), FSub(e[i], t[i])), t[i]))

\* C1, as stated: for every significance outside (0,1), constructing a
\* Complete or Incomplete problem situation returns SignificanceInvalid, and
\* SameVarianceHypothesis::solve returns SignificanceInvalid for any samples.
C1_SignificanceInvalid_AnyLengths ==
    /\ ConstructorCalled /\ args.significance \in InvalidSignificances
          => situation = Err("SignificanceInvalid")
    /\ SVHSolved /\ svh.significance \in InvalidSignificances
          => Returned(svh_out, Err("SignificanceInvalid"))

\* C1, amended: for every significance outside (0,1), constructing a Complete
\* or Incomplete problem situation from two sequences of equal length returns
\* SignificanceInvalid, and SameVarianceHypothesis::solve returns
\* SignificanceInvalid for any samples.
C1_SignificanceInvalid ==
    /\ ConstructorCalled /\ args.significance \in InvalidSignificances
                         /\ Len(args.a) = Len(args.b)
          => situation = Err("SignificanceInvalid")
    /\ SVHSolved /\ svh.significance \in InvalidSignificances
          => Returned(svh_out, Err("SignificanceInvalid"))

C1_Witness ==
    /\ ConstructorCalled
    /\ args.op = "IncompleteNDHProblemSituation::new"
    /\ Len(args.a) = 4 /\ Len(args.b) = 4
    /\ args.significance = F(0)
    /\ situation = Err("SignificanceInvalid")

\* C2: a problem situation's constructor given two sequences of different
\* lengths returns NonEqualSamplesLengths and produces no instance; given
\* equal lengths and a significance in (0,1) it succeeds, and the instance
\* holds the arguments.
C2_LengthMismatch ==
    ConstructorCalled =>
        /\ Len(args.a) # Len(args.b)
              => situation = Err("NonEqualSamplesLengths") /\ pc = "failed" /\ ndh = NoValue
        /\ Len(args.a) = Len(args.b) /\ args.significance \in ValidSignificances
              => /\ situation.ok
                 /\ situation.value.significance = args.significance
                 /\ IF args.op = "CompleteNDHProblemSituation::new"
                    THEN /\ situation.value.kind = "Complete"
                         /\ situation.value.empirical_sample = args.a
                         /\ situation.value.theoretical_sample = args.b
                    ELSE /\ situation.value.kind = "Incomplete"
                         /\ situation.value.random_value_ranges = args.a
                         /\ situation.value.empirical_sample = args.b

C2_Witness ==
    /\ ConstructorCalled
    /\ args.op = "CompleteNDHProblemSituation::new"
    /\ Len(args.a) = 4 /\ Len(args.b) = 3
    /\ args.significance \in ValidSignificances
    /\ situation = Err("NonEqualSamplesLengths")

\* C3: with a valid significance, solve() returns FreedomDegreesInvalid as a
\* value (it does not panic) whenever the degrees of freedom are <= 0: for
\* NormalDistributionHypothesis when the empirical sample has length <= 3, in
\* either variant; for SameVarianceHypothesis when either sample has length
\* <= 1.
C3_FreedomDegreesInvalid ==
    /\ NDHSolved /\ Len(ndh.situation.empirical_sample) <= 3
          => Returned(ndh_out, Err("FreedomDegreesInvalid"))
    /\ SVHSolved /\ svh.significance \in ValidSignificances
                 /\ (Len(svh.x_sample) <= 1 \/ Len(svh.y_sample) <= 1)
          => Returned(svh_out, Err("FreedomDegreesInvalid"))

\* An Incomplete situation of three bins with no observation at all: its
\* normal fit would fail, and solve() reports the degrees of freedom.
C3_Witness ==
    /\ NDHSolved
    /\ ndh.situation.kind = "Incomplete"
    /\ Len(ndh.situation.empirical_sample) = 3
    /\ \A i \in 1..3 : IsZero(ndh.situation.empirical_sample[i])
    /\ Returned(ndh_out, Err("FreedomDegreesInvalid"))

\* C4: for an Incomplete situation whose estimated mean and standard deviation
\* cannot construct a normal distribution (standard deviation zero, or no
\* observation), solve() with valid degrees of freedom reports an error value
\* to the caller; it does not abort.
C4_NormalFitErrorIsAValue ==
    NDHSolved /\ ndh.situation.kind = "Incomplete"
              /\ Len(ndh.situation.empirical_sample) >= 4
              /\ ~Normal_new_sqrt(Incomplete_mean(ndh.situation),
                                  Incomplete_variance(ndh.situation)).ok
        => ndh_out.status = "returned" /\ ~ndh_out.result.ok

\* C5: the observed F statistic computed by SameVarianceHypothesis::solve is
\* >= 1 for all samples, constant ones included.  Stated for the calls that
\* return a verdict (a valid significance, both samples of length >= 2).
C5_ObservedAtLeastOne ==
    SVHSolved /\ svh_out.result.ok
        => ~IsNaN(svh_out.observed) /\ ~FLt(svh_out.observed, F(1))

\* C6: for a Complete situation of length >= 4 whose empirical and theoretical
\* samples are equal elementwise and positive, the observed chi-squared
\* statistic is exactly 0 and solve() returns Ok(true), for every
\* significance in (0,1).
C6_EqualSamplesAccepted ==
    NDHSolved /\ ndh.situation.kind = "Complete"
              /\ Len(ndh.situation.empirical_sample) >= 4
              /\ (\A i \in 1..Len(ndh.situation.empirical_sample) :
                    /\ FEq(ndh.situation.empirical_sample[i], ndh.situation.theoretical_sample[i])
                    /\ FGt(ndh.situation.theoretical_sample[i], F(0)))
        => /\ Returned(ndh_out, Ok(TRUE))
           /\ IsZero(ndh_out.observed)

C6_Witness ==
    /\ NDHSolved
    /\ ndh.situation.kind = "Complete"
    /\ ndh.situation.significance = Q(1, 100)
    /\ Len(ndh.situation.empirical_sample) = 4
    /\ \A i \in 1..4 : /\ ndh.situation.empirical_sample[i] = F(1)
                       /\ ndh.situation.theoretical_sample[i] = F(1)
    /\ Returned(ndh_out, Ok(TRUE))
    /\ IsZero(ndh_out.observed)

C8_FreedomDegreesOrientation ==
    SVHSolved /\ ~IsNaN(svh_out.x_usv) /\ ~IsNaN(svh_out.y_usv) =>
        LET x_dof == F(Len(svh.x_sample) - 1)
            y_dof == F(Len(svh.y_sample) - 1)
        IN  /\ ~FLt(svh_out.x_usv, svh_out.y_usv)
                  => svh_out.freedom_degrees_1 = x_dof /\ svh_out.freedom_degrees_2 = y_dof
            /\ FLt(svh_out.x_usv, svh_out.y_usv)
                  => svh_out.freedom_degrees_1 = y_dof /\ svh_out.freedom_degrees_2 = x_dof

\* Y has the larger variance and another length than X.
C8_Witness ==
    /\ SVHSolved
    /\ svh_out.result.ok
    /\ FLt(svh_out.x_usv, svh_out.y_usv)
    /\ Len(svh.x_sample) = 3 /\ Len(svh.y_sample) = 2
    /\ svh_out.freedom_degrees_1 = F(1)
    /\ svh_out.freedom_degrees_2 = F(2)

\* C9: for a constructed situation (Complete or Incomplete) with at least 4
\* bins, solve() returns Ok(true) if and only if the chi-squared statistic is
\* strictly less than the critical value at len-3 degrees of freedom and the
\* situation's significance; equality gives false.
C9_VerdictIffBelowCritical ==
    NDHSolved /\ Len(ndh.situation.empirical_sample) >= 4 =>
        LET sit == ndh.situation
            n == Len(sit.empirical_sample)
            theoretical == theoretical_sample(sit)
            critical_value ==
                ChiSquared_inverse_cdf([freedom |-> F(n - 3)], FSub(F(1), sit.significance))
        IN  Returned(ndh_out, Ok(TRUE))
                <=> /\ ~theoretical.panic
                    /\ FLt(ChiSquaredStatistic(sit.empirical_sample, theoretical.value, n),
                           critical_value)

\* The statistic equals the critical value and the verdict is false.
C9_Witness ==
    /\ NDHSolved
    /\ Len(ndh.situation.empirical_sample) >= 4
    /\ ndh_out.status = "returned"
    /\ ndh_out.result = Ok(FALSE)
    /\ FEq(ndh_out.observed, ndh_out.critical)

\* C10: a problem situation's constructor given both mismatched lengths and
\* a significance outside (0,1) returns NonEqualSamplesLengths; a
\* critical-value computation (chi-squared or F) given both a significance
\* outside (0,1) and non-positive degrees of freedom returns
\* SignificanceInvalid.
C10_ErrorPrecedence ==
    /\ ConstructorCalled /\ Len(args.a) # Len(args.b)
                         /\ args.significance \in InvalidSignificances
          => situation = Err("NonEqualSamplesLengths")
    /\ ChiSquaredCriticalCalled /\ args.significance \in InvalidSignificances
                                /\ ~FGt(args.a, F(0))
          => critical = Err("SignificanceInvalid")
    /\ SVHSolved /\ svh.significance \in InvalidSignificances
                 /\ (Len(svh.x_sample) <= 1 \/ Len(svh.y_sample) <= 1)
          => Returned(svh_out, Err("SignificanceInvalid"))

C10_Witness ==
    /\ ChiSquaredCriticalCalled
    /\ args.significance = Q(3, 2)
    /\ args.a = F(-1)
    /\ critical = Err("SignificanceInvalid")

=============================================================================
